---------------------------- MODULE Spec2Model ----------------------------
(***************************************************************************)
(* A model of the two wordlist generators of the repository:               *)
(*                                                                         *)
(*   numbers.py  main() and generate_wordlist(): interactive, digits only, *)
(*               pre-flight estimate and disk-space check, streaming write *)
(*               inside a with-block, progress reports;                    *)
(*   app.py      a script: two int(input()) reads, open(), the product     *)
(*               loop with two writes per entry, a final print.            *)
(*                                                                         *)
(* A run is one execution of one entry point (entry).  Program positions   *)
(* (pc) are statements of the source: a KeyboardInterrupt is delivered     *)
(* between two statements, so the write of a line (numbers.py:152) and the *)
(* increment of the counter (numbers.py:153) are separate steps.           *)
(*                                                                         *)
(* file is the content written through the output handle, character by     *)
(* character, "\n" included; it is what the file holds once the handle is  *)
(* closed.  The terminal echo of each word (numbers.py:154-155), the       *)
(* elapsed time and the ETA text of a progress line, the output filename   *)
(* and the write-speed benchmark (which writes a temporary file, never the *)
(* output file) are not part of the state.                                 *)
(***************************************************************************)
EXTENDS Naturals, Integers, Sequences, FiniteSets, TLC

(***************************************************************************)
(* Bounds of the model.                                                    *)
(***************************************************************************)
\* the alphabets are cut to their first MaxAlphabet characters
MaxAlphabet == 2
\* lengths typed at the prompts range over 0 .. MaxLen
MaxLen == 2
\* the digits typed at the "specific digits" prompt: at most MaxInput characters
MaxInput == 3
\* progress_interval of a direct call of generate_wordlist ranges over 1 .. MaxInterval
MaxInterval == 3

(***************************************************************************)
(* Program constants.                                                      *)
(***************************************************************************)
\* get_free_space returns None when the query fails
None == -1
\* main calls generate_wordlist with progress_interval=10000
MainProgressInterval == 10000
\* "0123456789", cut to the model's alphabet bound
AllDigits == SubSeq(<<"0", "1", "2", "3", "4", "5", "6", "7", "8", "9">>, 1, MaxAlphabet)
\* string.ascii_lowercase + ascii_uppercase + digits + punctuation, cut likewise
character == SubSeq(<<"a", "b", "c", "d", "e", "f", "g", "h", "i", "j">>, 1, MaxAlphabet)
\* the line terminator written after each word
NL == "\n"

VARIABLES
    entry,          \* "main" | "generate_wordlist" | "app": what is being run
    pc,             \* the statement about to execute, or a terminal state
    charset,        \* the alphabet, a sequence of characters
    min_len,        \* length bounds (0 before they are read)
    max_len,
    progress_interval,
    total_entries,  \* estimate_counts' total
    per_length,     \* estimate_counts' breakdown: length -> count
    total_bytes,    \* estimate_bytes(per_length), computed by main only
    free,           \* get_free_space's answer (None: unavailable or not yet asked)
    yes,            \* the confirm() prompts answered "y"/"yes"
    handle,         \* the output file handle: "none" | "open" | "closed"
    file,           \* the characters written through the handle
    length,         \* the outer loop variable
    fresh,          \* product(charset, repeat=length) has not yielded yet
    tup,            \* the tuple product() yielded last, as 1-based indices
    written,        \* written (numbers.py) / counter (app.py)
    console         \* progress reports and final messages printed

vars == <<entry, pc, charset, min_len, max_len, progress_interval, total_entries,
          per_length, total_bytes, free, yes, handle, file, length, fresh, tup,
          written, console>>

(***************************************************************************)
(* Pure helpers.                                                           *)
(***************************************************************************)
Range(s) == {s[i] : i \in 1..Len(s)}

RECURSIVE SeqsUpTo(_, _)
\* all sequences over S of length 0 .. n
SeqsUpTo(S, n) ==
    IF n = 0 THEN {<<>>}
    ELSE LET shorter == SeqsUpTo(S, n - 1)
         IN  shorter \cup {Append(s, c) : s \in {t \in shorter : Len(t) = n - 1}, c \in S}

RECURSIVE pow(_, _)
\* Python's integer pow(base, exp), exp >= 0: exact, unbounded
pow(base, exp) == IF exp = 0 THEN 1 ELSE base * pow(base, exp - 1)

RECURSIVE RemoveCommas(_)
\* s.replace(",", "")
RemoveCommas(s) ==
    IF s = <<>> THEN <<>>
    ELSE IF Head(s) = "," THEN RemoveCommas(Tail(s))
    ELSE <<Head(s)>> \o RemoveCommas(Tail(s))

\* s.isdigit() and all(ch in "0123456789" for ch in s): non-empty, digits only
IsDigits(s) == s # <<>> /\ \A i \in 1..Len(s) : s[i] \in Range(AllDigits)

RECURSIVE Dedup(_, _)
\* the seen/digits loop: first occurrences, in order
Dedup(s, seen) ==
    IF s = <<>> THEN <<>>
    ELSE IF Head(s) \in seen THEN Dedup(Tail(s), seen)
    ELSE <<Head(s)>> \o Dedup(Tail(s), seen \cup {Head(s)})

\* confirm(): the stripped, lower-cased answer is "y" or "yes"
Answers == {"y", "yes", "n", ""}
confirm(ans) == ans \in {"y", "yes"}


(***************************************************************************)
(* numbers.py: the estimator.                                              *)
(***************************************************************************)
RECURSIVE estimate_loop(_, _, _, _, _)
\* the body of "for i in range(start, stop)": cnt = pow(charset_len, i);
\* per_length[i] = cnt; total += cnt
estimate_loop(charset_len, i, stop, total, breakdown) ==
    IF i >= stop THEN [total |-> total, per_length |-> breakdown]
    ELSE LET cnt == pow(charset_len, i)
         IN  estimate_loop(charset_len, i + 1, stop, total + cnt, breakdown @@ (i :> cnt))

\* a plausible slip: range(min_len, max_len) leaves the last length out
estimate_counts_short(charset_len, mn, mx) ==
    estimate_loop(charset_len, mn, mx, 0, <<>>)

\* estimate_counts(charset_len, min_len, max_len) -> (total, per_length)
estimate_counts(charset_len, mn, mx) ==
    estimate_loop(charset_len, mn, mx + 1, 0, <<>>)

RECURSIVE bytes_loop(_, _, _)
\* "for i, cnt in per_length.items(): total_bytes += cnt * (i + extra)",
\* items in insertion order, which is ascending length
bytes_loop(breakdown, keys, extra) ==
    IF keys = {} THEN 0
    ELSE LET i == CHOOSE k \in keys : \A j \in keys : k <= j
         IN  breakdown[i] * (i + extra) + bytes_loop(breakdown, keys \ {i}, extra)

\* a plausible slip: the newline of each entry is not counted
estimate_bytes_no_newline(breakdown) == bytes_loop(breakdown, DOMAIN breakdown, 0)

\* estimate_bytes(per_length): (i + 1) bytes per entry of length i
estimate_bytes(breakdown) == bytes_loop(breakdown, DOMAIN breakdown, 1)

(***************************************************************************)
(* itertools.product(charset, repeat=L) as the odometer it is: the first   *)
(* tuple holds the first character everywhere; each next tuple advances    *)
(* the rightmost position that can advance and resets those to its right.  *)
(***************************************************************************)
\* product() of an empty pool yields nothing unless repeat = 0
ProductEmpty(n, L) == n = 0 /\ L > 0

ProductFirst(L) == [j \in 1..L |-> 1]

HasNext(t, n) == \E i \in 1..Len(t) : t[i] < n

\* a plausible slip: the leftmost position advances fastest
ProductNextLeftmost(t, n) ==
    LET i == CHOOSE k \in 1..Len(t) : t[k] < n /\ \A j \in 1..(k - 1) : t[j] >= n
    IN  [j \in 1..Len(t) |-> IF j > i THEN t[j] ELSE IF j = i THEN t[j] + 1 ELSE 1]

\* a plausible slip: the positions to the right are not reset
ProductNextNoReset(t, n) ==
    LET i == CHOOSE k \in 1..Len(t) : t[k] < n /\ \A j \in (k + 1)..Len(t) : t[j] >= n
    IN  [j \in 1..Len(t) |-> IF j = i THEN t[j] + 1 ELSE t[j]]

ProductNext(t, n) ==
    LET i == CHOOSE k \in 1..Len(t) : t[k] < n /\ \A j \in (k + 1)..Len(t) : t[j] >= n
    IN  [j \in 1..Len(t) |-> IF j < i THEN t[j] ELSE IF j = i THEN t[j] + 1 ELSE 1]

\* "".join(tup): the characters the indices stand for
Join(cs, t) == [j \in 1..Len(t) |-> cs[t[j]]]

\* a plausible slip: the terminator is left out
LineNoNewline(word) == word

\* word + "\n"
Line(word) == word \o <<NL>>

\* a plausible slip: the final entry gets no report
ReportDueNoFinal(w, interval, total) == w % interval = 0

\* written % progress_interval == 0 or written == total_entries_int
ReportDue(w, interval, total) == w % interval = 0 \/ w = total

(***************************************************************************)
(* numbers.py: the prompts.                                                *)
(***************************************************************************)
\* what may be typed at the "specific digits" prompt
RawInputs == SeqsUpTo(Range(AllDigits) \cup {",", "x"}, MaxInput)

\* the alphabets input_digits_choice can return
Charsets ==
    {AllDigits} \cup
    {Dedup(RemoveCommas(s), {}) : s \in {r \in RawInputs : IsDigits(RemoveCommas(r))}}

\* "if L > 0" of the fixed mode
ValidFixed(L) == L > 0

\* "if mn >= 1 and mx >= mn" of the range mode
ValidRange(mn, mx) == mn >= 1 /\ mx >= mn

\* what get_free_space may answer for a run that needs tb bytes
FreeChoices(tb) == {None, tb - 1, tb}

\* a plausible slip: low free space is not asked about
SpacePromptNoForce(f, tb) == IF f # None THEN "" ELSE "continue"

\* the prompt the disk-space check shows: "force" when the space is known and
\* too small, "continue" when it is unknown, none ("") when it suffices
SpacePrompt(f, tb) ==
    IF f # None THEN (IF f < tb THEN "force" ELSE "") ELSE "continue"

(***************************************************************************)
(* The state after start-up: nothing read, nothing opened.                 *)
(***************************************************************************)
Init ==
    /\ entry \in {"main", "generate_wordlist", "app"}
    /\ pc = (IF entry = "main" THEN "m_digits"
             ELSE IF entry = "generate_wordlist" THEN "gw_call" ELSE "app_input")
    /\ charset = <<>>
    /\ min_len = 0
    /\ max_len = 0
    /\ progress_interval = MainProgressInterval
    /\ total_entries = 0
    /\ per_length = <<>>
    /\ total_bytes = 0
    /\ free = None
    /\ yes = {}
    /\ handle = "none"
    /\ file = <<>>
    /\ length = 0
    /\ fresh = FALSE
    /\ tup = <<>>
    /\ written = 0
    /\ console = <<>>

(***************************************************************************)
(* numbers.py main(): the prompts and the pre-flight checks.               *)
(***************************************************************************)
\* input_digits_choice, choice "all"
InputDigitsAll ==
    /\ pc = "m_digits"
    /\ charset' = AllDigits
    /\ pc' = "m_length"
    /\ UNCHANGED <<entry, min_len, max_len, progress_interval, total_entries, per_length,
                   total_bytes, free, yes, handle, file, length, fresh, tup, written,
                   console>>

\* input_digits_choice, choice "specific": an invalid answer is asked again
InputDigitsSpecific ==
    /\ pc = "m_digits"
    /\ \E raw \in RawInputs :
          LET s == RemoveCommas(raw)
          IN  IF IsDigits(s)
              THEN charset' = Dedup(s, {}) /\ pc' = "m_length"
              ELSE UNCHANGED <<charset, pc>>
    /\ UNCHANGED <<entry, min_len, max_len, progress_interval, total_entries, per_length,
                   total_bytes, free, yes, handle, file, length, fresh, tup, written,
                   console>>

\* input_length_choice, mode "fixed": an invalid length is asked again
InputLengthFixed ==
    /\ pc = "m_length"
    /\ \E L \in 0..MaxLen :
          IF ValidFixed(L)
          THEN min_len' = L /\ max_len' = L /\ pc' = "m_estimate"
          ELSE UNCHANGED <<min_len, max_len, pc>>
    /\ UNCHANGED <<entry, charset, progress_interval, total_entries, per_length,
                   total_bytes, free, yes, handle, file, length, fresh, tup, written,
                   console>>

\* input_length_choice, mode "range": invalid bounds are asked again
InputLengthRange ==
    /\ pc = "m_length"
    /\ \E mn \in 0..MaxLen, mx \in 0..MaxLen :
          IF ValidRange(mn, mx)
          THEN min_len' = mn /\ max_len' = mx /\ pc' = "m_estimate"
          ELSE UNCHANGED <<min_len, max_len, pc>>
    /\ UNCHANGED <<entry, charset, progress_interval, total_entries, per_length,
                   total_bytes, free, yes, handle, file, length, fresh, tup, written,
                   console>>

\* main: compute counts & sizes
MainEstimate ==
    /\ pc = "m_estimate"
    /\ LET est == estimate_counts(Len(charset), min_len, max_len)
       IN  /\ total_entries' = est.total
           /\ per_length' = est.per_length
           /\ total_bytes' = estimate_bytes(est.per_length)
    /\ pc' = "m_space"
    /\ UNCHANGED <<entry, charset, min_len, max_len, progress_interval, free, yes,
                   handle, file, length, fresh, tup, written, console>>

\* main: the disk space check, with its force / continue prompt
MainSpaceCheck ==
    /\ pc = "m_space"
    /\ \E f \in FreeChoices(total_bytes), ans \in Answers :
          LET prompt == SpacePrompt(f, total_bytes)
          IN  /\ free' = f
              /\ IF prompt = ""
                 THEN pc' = "m_confirm" /\ UNCHANGED <<yes, console>>
                 ELSE IF confirm(ans)
                 THEN pc' = "m_confirm" /\ yes' = yes \cup {prompt} /\ UNCHANGED console
                 ELSE /\ pc' = "aborted"
                      /\ console' = Append(console, [kind |-> "aborted"])
                      /\ UNCHANGED yes
    /\ UNCHANGED <<entry, charset, min_len, max_len, progress_interval, total_entries,
                   per_length, total_bytes, handle, file, length, fresh, tup, written>>

\* main: the benchmark (no effect on the output file) and "Start now?"
MainStartConfirm ==
    /\ pc = "m_confirm"
    /\ \E ans \in Answers :
          IF confirm(ans)
          THEN pc' = "gw_estimate" /\ yes' = yes \cup {"start"} /\ UNCHANGED console
          ELSE /\ pc' = "aborted"
               /\ console' = Append(console, [kind |-> "aborted"])
               /\ UNCHANGED yes
    /\ UNCHANGED <<entry, charset, min_len, max_len, progress_interval, total_entries,
                   per_length, total_bytes, free, handle, file, length, fresh, tup,
                   written>>

(***************************************************************************)
(* numbers.py generate_wordlist().                                         *)
(***************************************************************************)
\* a call of generate_wordlist with arguments of its contract: an alphabet of
\* unique digits, 1 <= min_len <= max_len, progress_interval >= 1
CallGenerateWordlist ==
    /\ pc = "gw_call"
    /\ \E cs \in Charsets, mn \in 1..MaxLen, mx \in 1..MaxLen, pi \in 1..MaxInterval :
          /\ ValidRange(mn, mx)
          /\ charset' = cs
          /\ min_len' = mn
          /\ max_len' = mx
          /\ progress_interval' = pi
    /\ pc' = "gw_estimate"
    /\ UNCHANGED <<entry, total_entries, per_length, total_bytes, free, yes, handle, file,
                   length, fresh, tup, written, console>>

GwPcs == {"gw_estimate", "gw_open", "gw_iter", "gw_write", "gw_count", "gw_progress",
          "gw_return"}

\* what main's handlers print for an exception out of generate_wordlist; a
\* direct caller gets the exception itself
Handled(msg) == IF entry = "main" THEN Append(console, msg) ELSE console

\* total_entries, per_length = estimate_counts(...); written = 0
GwEstimate ==
    /\ pc = "gw_estimate"
    /\ LET est == estimate_counts(Len(charset), min_len, max_len)
       IN  total_entries' = est.total /\ per_length' = est.per_length
    /\ written' = 0
    /\ pc' = "gw_open"
    /\ UNCHANGED <<entry, charset, min_len, max_len, progress_interval, total_bytes, free,
                   yes, handle, file, length, fresh, tup, console>>

\* with open(path, "w") as fh: the file is created or truncated
GwOpen ==
    /\ pc = "gw_open"
    /\ handle' = "open"
    /\ file' = <<>>
    /\ length' = min_len
    /\ fresh' = TRUE
    /\ pc' = "gw_iter"
    /\ UNCHANGED <<entry, charset, min_len, max_len, progress_interval, total_entries,
                   per_length, total_bytes, free, yes, tup, written, console>>

\* open() raises OSError
GwOpenFail ==
    /\ pc = "gw_open"
    /\ pc' = "failed"
    /\ console' = Handled([kind |-> "error", cause |-> "open"])
    /\ UNCHANGED <<entry, charset, min_len, max_len, progress_interval, total_entries,
                   per_length, total_bytes, free, yes, handle, file, length, fresh, tup,
                   written>>

\* the two for-headers: the next tuple of this length, else the next length,
\* else the end of the loops (pcExit, with the handle left as handleAfter)
Iterate(pcWrite, pcExit, handleAfter) ==
    IF length > max_len
    THEN pc' = pcExit /\ handle' = handleAfter /\ UNCHANGED <<length, fresh, tup>>
    ELSE IF fresh /\ ~ProductEmpty(Len(charset), length)
    THEN /\ tup' = ProductFirst(length)
         /\ fresh' = FALSE
         /\ pc' = pcWrite
         /\ UNCHANGED <<length, handle>>
    ELSE IF ~fresh /\ HasNext(tup, Len(charset))
    THEN /\ tup' = ProductNext(tup, Len(charset))
         /\ pc' = pcWrite
         /\ UNCHANGED <<length, fresh, handle>>
    ELSE /\ length' = length + 1
         /\ fresh' = TRUE
         /\ UNCHANGED <<pc, tup, handle>>

\* for length in range(...): for tup in product(...): word = "".join(tup);
\* leaving the with-block closes the handle
GwIter ==
    /\ pc = "gw_iter"
    /\ Iterate("gw_write", "gw_return", "closed")
    /\ UNCHANGED <<entry, charset, min_len, max_len, progress_interval, total_entries,
                   per_length, total_bytes, free, yes, file, written, console>>

\* fh.write(word + "\n")
GwWrite ==
    /\ pc = "gw_write"
    /\ file' = file \o Line(Join(charset, tup))
    /\ pc' = "gw_count"
    /\ UNCHANGED <<entry, charset, min_len, max_len, progress_interval, total_entries,
                   per_length, total_bytes, free, yes, handle, length, fresh, tup, written,
                   console>>

\* fh.write raises OSError; any proper prefix of the line may have gone out;
\* the with-block closes the handle
GwWriteFail ==
    /\ pc = "gw_write"
    /\ \E k \in 0..Len(tup) : file' = file \o SubSeq(Line(Join(charset, tup)), 1, k)
    /\ handle' = "closed"
    /\ pc' = "failed"
    /\ console' = Handled([kind |-> "error", cause |-> "write"])
    /\ UNCHANGED <<entry, charset, min_len, max_len, progress_interval, total_entries,
                   per_length, total_bytes, free, yes, length, fresh, tup, written>>

\* written += 1
GwCount ==
    /\ pc = "gw_count"
    /\ written' = written + 1
    /\ pc' = "gw_progress"
    /\ UNCHANGED <<entry, charset, min_len, max_len, progress_interval, total_entries,
                   per_length, total_bytes, free, yes, handle, file, length, fresh, tup,
                   console>>

\* the [Progress] line, when due
GwProgress ==
    /\ pc = "gw_progress"
    /\ console' = IF ReportDue(written, progress_interval, total_entries)
                  THEN Append(console, [kind |-> "progress", written |-> written,
                                        total |-> total_entries])
                  ELSE console
    /\ pc' = "gw_iter"
    /\ UNCHANGED <<entry, charset, min_len, max_len, progress_interval, total_entries,
                   per_length, total_bytes, free, yes, handle, file, length, fresh, tup,
                   written>>

\* return written, total_time; main prints "Done. Wrote {written} entries"
GwReturn ==
    /\ pc = "gw_return"
    /\ pc' = "done"
    /\ console' = Handled([kind |-> "done", written |-> written])
    /\ UNCHANGED <<entry, charset, min_len, max_len, progress_interval, total_entries,
                   per_length, total_bytes, free, yes, handle, file, length, fresh, tup,
                   written>>

\* KeyboardInterrupt anywhere in generate_wordlist: the with-block closes the
\* handle on the way out; main prints "Interrupted by user"
GwInterrupt ==
    /\ pc \in GwPcs
    /\ handle' = IF handle = "open" THEN "closed" ELSE handle
    /\ pc' = "interrupted"
    /\ console' = Handled([kind |-> "interrupted"])
    /\ UNCHANGED <<entry, charset, min_len, max_len, progress_interval, total_entries,
                   per_length, total_bytes, free, yes, file, length, fresh, tup, written>>

(***************************************************************************)
(* app.py.                                                                 *)
(***************************************************************************)
AppPcs == {"app_open", "app_iter", "app_write_word", "app_write_nl", "app_count",
           "app_print"}

\* min_len = int(input(...)); max_len = int(input(...)); counter = 0; character = ...
AppInput ==
    /\ pc = "app_input"
    /\ \E mn \in 0..MaxLen, mx \in 0..MaxLen : min_len' = mn /\ max_len' = mx
    /\ written' = 0
    /\ charset' = character
    /\ pc' = "app_open"
    /\ UNCHANGED <<entry, progress_interval, total_entries, per_length, total_bytes, free,
                   yes, handle, file, length, fresh, tup, console>>

\* file_open = open("wordlist.txt", 'w')
AppOpen ==
    /\ pc = "app_open"
    /\ handle' = "open"
    /\ file' = <<>>
    /\ length' = min_len
    /\ fresh' = TRUE
    /\ pc' = "app_iter"
    /\ UNCHANGED <<entry, charset, min_len, max_len, progress_interval, total_entries,
                   per_length, total_bytes, free, yes, tup, written, console>>

\* open() raises OSError: the script dies with a traceback
AppOpenFail ==
    /\ pc = "app_open"
    /\ pc' = "failed"
    /\ console' = Append(console, [kind |-> "error", cause |-> "open"])
    /\ UNCHANGED <<entry, charset, min_len, max_len, progress_interval, total_entries,
                   per_length, total_bytes, free, yes, handle, file, length, fresh, tup,
                   written>>

\* for i in range(...): for j in product(...): word = "".join(j); after the
\* loops the handle is still open
AppIter ==
    /\ pc = "app_iter"
    /\ Iterate("app_write_word", "app_print", handle)
    /\ UNCHANGED <<entry, charset, min_len, max_len, progress_interval, total_entries,
                   per_length, total_bytes, free, yes, file, written, console>>

\* file_open.write(word)
AppWriteWord ==
    /\ pc = "app_write_word"
    /\ file' = file \o Join(charset, tup)
    /\ pc' = "app_write_nl"
    /\ UNCHANGED <<entry, charset, min_len, max_len, progress_interval, total_entries,
                   per_length, total_bytes, free, yes, handle, length, fresh, tup, written,
                   console>>

\* file_open.write("\n")
AppWriteNl ==
    /\ pc = "app_write_nl"
    /\ file' = file \o <<NL>>
    /\ pc' = "app_count"
    /\ UNCHANGED <<entry, charset, min_len, max_len, progress_interval, total_entries,
                   per_length, total_bytes, free, yes, handle, length, fresh, tup, written,
                   console>>

\* either write raises OSError (part of the word may have gone out): the
\* script dies with a traceback, the handle was never closed by the script
AppWriteFail ==
    /\ pc \in {"app_write_word", "app_write_nl"}
    /\ \E k \in 0..Len(tup) :
          file' = IF pc = "app_write_word"
                  THEN file \o SubSeq(Join(charset, tup), 1, k)
                  ELSE file
    /\ pc' = "failed"
    /\ console' = Append(console, [kind |-> "error", cause |-> "write"])
    /\ UNCHANGED <<entry, charset, min_len, max_len, progress_interval, total_entries,
                   per_length, total_bytes, free, yes, handle, length, fresh, tup, written>>

\* counter += 1
AppCount ==
    /\ pc = "app_count"
    /\ written' = written + 1
    /\ pc' = "app_iter"
    /\ UNCHANGED <<entry, charset, min_len, max_len, progress_interval, total_entries,
                   per_length, total_bytes, free, yes, handle, file, length, fresh, tup,
                   console>>

\* print("Wordlist of {} passwords created".format(counter)); the script ends
\* without file_open.close()
AppPrint ==
    /\ pc = "app_print"
    /\ console' = Append(console, [kind |-> "created", written |-> written])
    /\ pc' = "done"
    /\ UNCHANGED <<entry, charset, min_len, max_len, progress_interval, total_entries,
                   per_length, total_bytes, free, yes, handle, file, length, fresh, tup,
                   written>>

\* KeyboardInterrupt anywhere in the script: nothing catches it
AppInterrupt ==
    /\ pc \in AppPcs
    /\ pc' = "interrupted"
    /\ UNCHANGED <<entry, charset, min_len, max_len, progress_interval, total_entries,
                   per_length, total_bytes, free, yes, handle, file, length, fresh, tup,
                   written, console>>

Next ==
    \/ InputDigitsAll
    \/ InputDigitsSpecific
    \/ InputLengthFixed
    \/ InputLengthRange
    \/ MainEstimate
    \/ MainSpaceCheck
    \/ MainStartConfirm
    \/ CallGenerateWordlist
    \/ GwEstimate
    \/ GwOpen
    \/ GwOpenFail
    \/ GwIter
    \/ GwWrite
    \/ GwWriteFail
    \/ GwCount
    \/ GwProgress
    \/ GwReturn
    \/ GwInterrupt
    \/ AppInput
    \/ AppOpen
    \/ AppOpenFail
    \/ AppIter
    \/ AppWriteWord
    \/ AppWriteNl
    \/ AppWriteFail
    \/ AppCount
    \/ AppPrint
    \/ AppInterrupt

Spec == Init /\ [][Next]_vars

(***************************************************************************)
(* Reading the model's state back, for the properties below.               *)
(***************************************************************************)
RECURSIVE Split(_, _, _)
\* the file read back from position i on: the complete (newline-terminated)
\* lines, and what follows the last newline
Split(s, i, acc) ==
    IF \E j \in i..Len(s) : s[j] = NL
    THEN LET j == CHOOSE x \in i..Len(s) : s[x] = NL /\ \A y \in i..(x - 1) : s[y] # NL
         IN  Split(s, j + 1, Append(acc, SubSeq(s, i, j - 1)))
    ELSE [lines |-> acc, rest |-> SubSeq(s, i, Len(s))]

ReadBack(f) == Split(f, 1, <<>>)
ReadLines(f) == ReadBack(f).lines
Remainder(f) == ReadBack(f).rest

\* the L-digit base-N numeral of k, most significant digit first, with the
\* alphabet cs as digit symbols
Numeral(cs, k, L) ==
    [i \in 1..L |-> cs[((k \div pow(Len(cs), L - i)) % Len(cs)) + 1]]

\* the numerals of 0 .. N^L - 1 in counting order
WordsOfLength(cs, L) == [k \in 1..pow(Len(cs), L) |-> Numeral(cs, k - 1, L)]

RECURSIVE Enumeration(_, _, _)
\* all lengths mn .. mx, ascending
Enumeration(cs, mn, mx) ==
    IF mn > mx THEN <<>> ELSE WordsOfLength(cs, mn) \o Enumeration(cs, mn + 1, mx)

IsPrefix(a, b) == Len(a) <= Len(b) /\ SubSeq(b, 1, Len(a)) = a

\* all strings of length L over the characters of cs, by brute force
AllStrings(cs, L) == [1..L -> Range(cs)]

RECURSIVE BruteForceCount(_, _, _)
BruteForceCount(cs, mn, mx) ==
    IF mn > mx THEN 0
    ELSE Cardinality(AllStrings(cs, mn)) + BruteForceCount(cs, mn + 1, mx)

IsProgress(msg) == msg.kind = "progress"
\* the progress reports printed so far, in order
Reports == SelectSeq(console, IsProgress)

Numbers == entry \in {"main", "generate_wordlist"}
Terminal == pc \in {"done", "interrupted", "failed", "aborted"}

(***************************************************************************)
(* C1.  With 1 <= min_len <= max_len, the lines written (by                *)
(* generate_wordlist and by the app.py loop) are the strings of length     *)
(* min_len, then min_len + 1, ..., max_len, and within a length the k-th   *)
(* line is the base-N numeral of k over the alphabet, most significant     *)
(* digit first: at every point the complete lines of the file are a prefix *)
(* of that sequence, and a completed run leaves exactly that sequence.     *)
(***************************************************************************)
C1_EnumerationOrder ==
    (handle # "none" /\ ValidRange(min_len, max_len)) =>
        LET expected == Enumeration(charset, min_len, max_len)
            back == ReadBack(file)
        IN  /\ IsPrefix(back.lines, expected)
            /\ pc = "done" => (back.lines = expected /\ back.rest = <<>>)

\* app.py over "ab" with both lengths 2 has written exactly aa, ab, ba, bb
C1_Witness ==
    /\ entry = "app" /\ pc = "done" /\ min_len = 2 /\ max_len = 2
    /\ charset = <<"a", "b">>
    /\ ReadLines(file) = << <<"a", "a">>, <<"a", "b">>, <<"b", "a">>, <<"b", "b">> >>

C3_EstimateCounts ==
    (Numbers /\ per_length # <<>>) =>
        /\ DOMAIN per_length = min_len..max_len
        /\ \A L \in min_len..max_len : per_length[L] = Cardinality(AllStrings(charset, L))
        /\ total_entries = BruteForceCount(charset, min_len, max_len)
        /\ pc = "done" => (written = total_entries
                           /\ Len(ReadLines(file)) = total_entries)

\* a completed run over two digits, lengths 1..2: 2 + 4 = 6 entries
C3_Witness ==
    /\ entry = "generate_wordlist" /\ pc = "done"
    /\ Len(charset) = 2 /\ min_len = 1 /\ max_len = 2
    /\ per_length[1] = 2 /\ per_length[2] = 4 /\ total_entries = 6 /\ written = 6

(***************************************************************************)
(* C4.  After a completed run the file holds, for each length L in         *)
(* min_len .. max_len, exactly alphabetSize^L lines of length L, pairwise  *)
(* distinct and made of alphabet characters only, and no line of any other *)
(* length and no unterminated rest.                                        *)
(***************************************************************************)
C4_CompletedFileContent ==
    pc = "done" =>
        LET lines == ReadLines(file)
            N == Len(charset)
        IN  /\ Remainder(file) = <<>>
            /\ \A i \in 1..Len(lines) : Len(lines[i]) \in min_len..max_len
            /\ \A L \in min_len..max_len :
                  LET at == {i \in 1..Len(lines) : Len(lines[i]) = L}
                  IN  /\ Cardinality(at) = pow(N, L)
                      /\ \A i \in at : \A j \in 1..L : lines[i][j] \in Range(charset)
                      /\ \A i \in at, j \in at : i # j => lines[i] # lines[j]
            /\ Len(lines) = BruteForceCount(charset, min_len, max_len)

\* app.py over "ab", lengths 1..2, completed: 2 + 4 lines
C4_Witness ==
    /\ entry = "app" /\ pc = "done" /\ min_len = 1 /\ max_len = 2
    /\ Len(ReadLines(file)) = 6

(***************************************************************************)
(* C5.  The size of the file a completed generate_wordlist run leaves (one *)
(* byte per character, one per newline) equals estimate_bytes(per_length); *)
(* in main it equals the total_bytes shown before the run.                 *)
(***************************************************************************)
C5_BytesEstimateIsFileSize ==
    (Numbers /\ pc = "done") =>
        /\ Len(file) = estimate_bytes(per_length)
        /\ entry = "main" => Len(file) = total_bytes

\* alphabet "01", lengths 1..2: 6 entries, 16 bytes
C5_Witness ==
    /\ entry = "main" /\ pc = "done" /\ charset = <<"0", "1">>
    /\ min_len = 1 /\ max_len = 2
    /\ total_entries = 6 /\ total_bytes = 16 /\ Len(file) = 16

(***************************************************************************)
(* C6.  In main the output file is opened only if the free space is known  *)
(* and suffices, or the force prompt (space known and too small) or the    *)
(* continue prompt (space unknown) was answered yes; an aborted run has    *)
(* opened and written nothing.                                             *)
(***************************************************************************)
C6_SpaceGate ==
    entry = "main" =>
        /\ (handle # "none" \/ file # <<>>) =>
              /\ (free # None /\ free < total_bytes) => "force" \in yes
              /\ free = None => "continue" \in yes
              /\ \/ free # None /\ free >= total_bytes
                 \/ "force" \in yes
                 \/ "continue" \in yes
        /\ pc = "aborted" => (handle = "none" /\ file = <<>>)

\* a forced run: too little space, the force prompt answered yes, lines written
C6_Witness ==
    /\ entry = "main" /\ free # None /\ free < total_bytes
    /\ "force" \in yes /\ handle = "open" /\ Len(ReadLines(file)) >= 2

(***************************************************************************)
(* C7.  As stated: with invalid length bounds (min_len < 1 or              *)
(* max_len < min_len) no generator opens, truncates or writes the output   *)
(* file.                                                                   *)
(***************************************************************************)
C7_InvalidBoundsNeverStart ==
    ~ValidRange(min_len, max_len) => (handle = "none" /\ file = <<>>)

(***************************************************************************)
(* C8.  As stated: no terminal state of a run (numbers.py or app.py) is    *)
(* reached with the output handle still open.                              *)
(***************************************************************************)
C8_HandleClosedOnExit ==
    Terminal => handle # "open"

(***************************************************************************)
(* C9.  In generate_wordlist the written counts of successive progress     *)
(* reports increase, never exceed total_entries, and are exactly the       *)
(* counts that are multiples of progress_interval or equal to              *)
(* total_entries, up to the entries counted so far; a completed run's last *)
(* report carries written = total_entries.                                 *)
(***************************************************************************)
C9_ProgressReports ==
    Numbers =>
        LET R == Reports
            due(n) == {w \in 1..n : w % progress_interval = 0 \/ w = total_entries}
            got == {R[i].written : i \in 1..Len(R)}
        IN  /\ \A i \in 1..Len(R) : R[i].written <= total_entries
                                    /\ R[i].total = total_entries
            /\ \A i \in 1..Len(R) : \A j \in 1..Len(R) :
                  i < j => R[i].written < R[j].written
            /\ got \subseteq due(written)
            /\ (written > 0 => due(written - 1) \subseteq got)
            /\ pc \in {"gw_iter", "gw_write", "gw_count", "gw_return", "done"}
                  => got = due(written)
            /\ pc = "done" => (R # <<>> /\ R[Len(R)].written = total_entries)

\* four entries at interval 3: a report at 3 and the unconditional one at 4
C9_Witness ==
    /\ entry = "generate_wordlist" /\ pc = "done"
    /\ progress_interval = 3 /\ total_entries = 4
    /\ Len(Reports) = 2 /\ Reports[1].written = 3 /\ Reports[2].written = 4

(***************************************************************************)
(* C10.  As stated: when opening or writing the output file fails in main, *)
(* the run ends failed, reported as an error and not as an interruption,   *)
(* and the report carries the cause and the count of entries written       *)
(* before the failure.                                                     *)
(***************************************************************************)
C10_FailureReport ==
    (entry = "main" /\ pc = "failed") =>
        /\ console # <<>>
        /\ LET msg == console[Len(console)]
           IN  /\ msg.kind = "error"
               /\ "cause" \in DOMAIN msg
               /\ "written" \in DOMAIN msg
               /\ msg.written = written

=============================================================================
